---- MODULE Spec2Model ----
(***************************************************************************)
(* Model of the App Store review tools:                                    *)
(*   app_reviews_fetcher.py  AppReviewsFetcher (fetch_url, extract_reviews,*)
(*                           get_next_page_url, fetch_all_reviews,         *)
(*                           fetch_and_save_all)                           *)
(*   review_analyzer.py      ReviewAnalyzer (get_all_reviews,              *)
(*                           analyze_ratings_distribution,                 *)
(*                           analyze_temporal_trends,                      *)
(*                           extract_keywords_and_issues)                  *)
(*                                                                         *)
(* Spec        the fetch session: two pagination walks, one per sort order *)
(* SpecMerge   get_all_reviews applied to drawn pairs of snapshots         *)
(* SpecRatings analyze_ratings_distribution applied to drawn review lists  *)
(* SpecTrends  analyze_temporal_trends applied to drawn review lists       *)
(* SpecIssues  extract_keywords_and_issues applied to drawn review lists   *)
(***************************************************************************)
EXTENDS Integers, Sequences, FiniteSets, TLC

VARIABLES
    \* ---- AppReviewsFetcher ----
    session_stats,   \* self.session_stats: pages_fetched, total_reviews, errors
    pc,              \* position in fetch_and_save_all / fetch_all_reviews / fetch_url
    walkNo,          \* number of fetch_all_reviews calls started in this session
    feed,            \* the remote feed of the current walk: page -> content,
                     \* fixed per page once it has been served
    url,             \* fetch_all_reviews: url
    page_num,        \* fetch_all_reviews: page_num
    all_reviews,     \* fetch_all_reviews: all_reviews
    metadata,        \* fetch_all_reviews: metadata (returned with all_reviews)
    attempt,         \* fetch_url: loop variable of `for attempt in range(...)`
    data,            \* value returned by fetch_url
    callLog,         \* history: outcome of each attempt of the current fetch_url call
    sleepsInCall,    \* history: backoff sleeps of the current fetch_url call
    walked,          \* history: cursors whose fetch returned a page, in order
    calls,           \* history: fetch_url calls made by the current walk
    interSleeps,     \* history: inter-page delays performed by the current walk
    events,          \* history: the current walk's inter-page delays and fetch_url
                     \* calls, in the order they happen
    fetchedAtStart,  \* history: session_stats.pages_fetched when the walk started
    attemptsMade,    \* history: attempts made by fetch_url in this session
    \* ---- ReviewAnalyzer ----
    reviews_data,    \* self.reviews_data: most_helpful / most_recent snapshots
    reviews,         \* the review list handed to an analysis method
    apc,             \* "input" before the analysis method ran, then "done" / "raised"
    result           \* value returned by the analysis method

fvars == <<session_stats, pc, walkNo, feed, url, page_num, all_reviews, metadata,
           attempt, data, callLog, sleepsInCall, walked, calls, interSleeps,
           events, fetchedAtStart, attemptsMade>>
avars == <<reviews_data, reviews, apc, result>>
vars == <<fvars, avars>>

----------------------------------------------------------------------------
(* Bounds of the model *)

\* pages of a remote feed
NumPages == 2
\* fetch_url calls explored per walk (the walk itself has no such limit)
MaxFetches == 3
\* failed attempts the remote side produces per session
MaxErrors == 3

(* Program constants *)

MAX_RETRIES == 3
DELAY_BETWEEN_REQUESTS == 1

----------------------------------------------------------------------------
(* URLs.  A URL of the feed is BASE_URL/page=<p>/id=<app>/sortby=<s>/<fmt>   *)
(* optionally followed by ?urlDesc=<desc>; app id and sort order are fixed   *)
(* within a walk, so a URL is its page, its format suffix and the kind of    *)
(* its urlDesc parameter (absent, or a path ending in /json or /xml).        *)

NoUrl == [page |-> 0, fmt |-> "none", desc |-> "none"]

StartUrl == [page |-> 1, fmt |-> "json", desc |-> "none"]

\* forms of the href of a published "next" link
HrefForms == { [fmt |-> "xml", desc |-> "xml"], [fmt |-> "json", desc |-> "json"] }

Hrefs == { [page |-> p, fmt |-> f.fmt, desc |-> f.desc] : p \in 1..NumPages, f \in HrefForms }

\* 'xml' in next_url
ContainsXml(u) == u.fmt = "xml" \/ u.desc = "xml"

\* next_url.replace('/xml', '/json'): every occurrence, suffix and urlDesc path
ReplaceXml(u) == [page |-> u.page, fmt |-> "json",
                  desc |-> IF u.desc = "xml" THEN "json" ELSE u.desc]

\* next_url.split('?urlDesc=')[0] when '?urlDesc=' in next_url
StripUrlDesc(u) == IF u.desc # "none" THEN [u EXCEPT !.desc = "none"] ELSE u

RewriteHref(u) == IF ContainsXml(u) THEN StripUrlDesc(ReplaceXml(u)) ELSE u

----------------------------------------------------------------------------
(* Feed payloads *)

\* shapes of feed.entry served for page p: absent, one entry object, a sequence
Shapes(p) == IF p % 2 = 1 THEN {"absent", "list"} ELSE {"absent", "single"}

SelfLink(p) == [rel |-> "self", href |-> [page |-> p, fmt |-> "xml", desc |-> "xml"]]
NextLink(h) == [rel |-> "next", href |-> h]

\* feed.link of page p: no links, only a self link, or a self and a next link
LinkSets(p) == { <<>>, <<SelfLink(p)>> } \cup { <<SelfLink(p), NextLink(h)>> : h \in Hrefs }

UnknownContent == [shape |-> "unknown", links |-> <<>>]

Contents(p) == [shape : Shapes(p), links : LinkSets(p)]

\* feed.entry of page p: absent, one entry object, or a sequence of entries
Entries(p, shape) ==
    CASE shape = "single" -> << [id |-> 10 * p + 1] >>
      [] shape = "list"   -> << [id |-> 10 * p + 1], [id |-> 10 * p + 2] >>
      [] OTHER            -> << >>

NoneData  == [kind |-> "none",  page |-> 0, shape |-> "absent", links |-> <<>>]
\* a body that parses as JSON to a falsy value ({}, [], null, 0, "")
FalsyData == [kind |-> "falsy", page |-> 0, shape |-> "absent", links |-> <<>>]
PageData(p, c) == [kind |-> "page", page |-> p, shape |-> c.shape, links |-> c.links]

\* `if not data`
Truthy(d) == d.kind = "page"

\* extract_reviews: a single entry object is wrapped into a list
ExtractReviews(d) ==
    IF d.shape = "absent" THEN <<>>
    ELSE [i \in 1..Len(Entries(d.page, d.shape)) |-> [id |-> Entries(d.page, d.shape)[i].id]]

RECURSIVE FirstNext(_)
FirstNext(links) ==
    IF links = <<>> THEN NoUrl
    ELSE IF Head(links).rel = "next" THEN RewriteHref(Head(links).href)
    ELSE FirstNext(Tail(links))

\* get_next_page_url
GetNextPageUrl(d) == FirstNext(d.links)

----------------------------------------------------------------------------
(* fetch_url *)

\* mutant: the last retry is dropped
HasBackoff_OneShort(a) == a < MAX_RETRIES - 2

\* `if attempt < self.MAX_RETRIES - 1`: sleep and try again
HasBackoff(a) == a < MAX_RETRIES - 1

\* mutant: one handler for every failure
IsRetried_Any(outcome) == TRUE

\* which failures reach the retry branch (except HTTPError/URLError)
IsRetried(outcome) == outcome = "transient"

\* mutant: the comparison with the current url is missing
ShouldAdvance_NoGuard(next_url, cur) == next_url # NoUrl

\* `if next_url and next_url != url`
ShouldAdvance(next_url, cur) == next_url # NoUrl /\ next_url # cur

\* mutant: the page's reviews are put in front
Extend_Prepend(acc, rs) == rs \o acc

\* all_reviews.extend(reviews)
Extend(acc, rs) == acc \o rs

\* mutant: the delay is also taken before the first page
NeedsDelay_Always(p) == TRUE

\* `if page_num > 1`: rate limiting before the fetch (lines 118-119)
NeedsDelay(p) == p > 1

\* mutant: a successful attempt also counts as an error
CountFetched_AndError(stats) == [stats EXCEPT !.pages_fetched = @ + 1, !.errors = @ + 1]

\* self.session_stats["pages_fetched"] += 1 (line 37)
CountFetched(stats) == [stats EXCEPT !.pages_fetched = @ + 1]

\* self.session_stats["errors"] += 1 (lines 41, 49)
CountError(stats) == [stats EXCEPT !.errors = @ + 1]

Pow2(a) == IF a = 0 THEN 1 ELSE IF a = 1 THEN 2 ELSE 4

InitMetadata == [sort_by |-> "none", total_pages |-> 0, total_reviews |-> 0]

FetcherInit ==
    /\ session_stats = [pages_fetched |-> 0, total_reviews |-> 0, errors |-> 0]
    /\ pc = "idle"
    /\ walkNo = 0
    /\ feed = [p \in 1..NumPages |-> UnknownContent]
    /\ url = NoUrl
    /\ page_num = 0
    /\ all_reviews = <<>>
    /\ metadata = InitMetadata
    /\ attempt = 0
    /\ data = NoneData
    /\ callLog = <<>>
    /\ sleepsInCall = <<>>
    /\ walked = <<>>
    /\ calls = 0
    /\ interSleeps = 0
    /\ events = <<>>
    /\ fetchedAtStart = 0
    /\ attemptsMade = 0

AnalyzerIdle ==
    /\ reviews_data = [most_helpful |-> <<>>, most_recent |-> <<>>]
    /\ reviews = <<>>
    /\ apc = "off"
    /\ result = [kind |-> "none"]

Init == FetcherInit /\ AnalyzerIdle

SortOrders == <<"mosthelpful", "mostrecent">>

\* fetch_and_save_all calling fetch_all_reviews: lines 101-112
StartWalk ==
    /\ pc \in {"idle", "returned"}
    /\ walkNo < Len(SortOrders)
    /\ walkNo' = walkNo + 1
    /\ feed' = [p \in 1..NumPages |-> UnknownContent]
    /\ all_reviews' = <<>>
    /\ metadata' = [sort_by |-> SortOrders[walkNo + 1], total_pages |-> 0, total_reviews |-> 0]
    /\ url' = StartUrl
    /\ page_num' = 1
    /\ walked' = <<>>
    /\ calls' = 0
    /\ interSleeps' = 0
    /\ attempt' = 0
    /\ data' = NoneData
    /\ callLog' = <<>>
    /\ sleepsInCall' = <<>>
    /\ events' = <<>>
    /\ fetchedAtStart' = session_stats.pages_fetched
    /\ pc' = "loop"
    /\ UNCHANGED <<session_stats, attemptsMade, avars>>

\* while url: rate limiting, then the call of fetch_url (lines 114-122)
BeginFetch ==
    /\ pc = "loop"
    /\ url # NoUrl
    /\ calls < MaxFetches
    /\ interSleeps' = IF NeedsDelay(page_num) THEN interSleeps + 1 ELSE interSleeps
    /\ events' = events \o (IF NeedsDelay(page_num) THEN <<"delay", "call">> ELSE <<"call">>)
    /\ calls' = calls + 1
    /\ attempt' = 0
    /\ callLog' = <<>>
    /\ sleepsInCall' = <<>>
    /\ data' = NoneData
    /\ pc' = "fetch"
    /\ UNCHANGED <<session_stats, walkNo, feed, url, page_num, all_reviews, metadata,
                   walked, fetchedAtStart, attemptsMade, avars>>

\* one attempt that reads and parses the body (lines 35-38)
AttemptOk ==
    /\ pc = "fetch"
    /\ \E c \in Contents(url.page), falsy \in BOOLEAN :
          /\ feed[url.page] \in {UnknownContent, c}
          /\ IF falsy
               THEN data' = FalsyData /\ feed' = feed
               ELSE data' = PageData(url.page, c) /\ feed' = [feed EXCEPT ![url.page] = c]
    /\ session_stats' = CountFetched(session_stats)
    /\ attemptsMade' = attemptsMade + 1
    /\ callLog' = Append(callLog, "ok")
    /\ pc' = "got"
    /\ UNCHANGED <<walkNo, url, page_num, all_reviews, metadata, attempt, sleepsInCall,
                   walked, calls, interSleeps, events, fetchedAtStart, avars>>

\* one attempt that raises (lines 39-50)
AttemptFail ==
    /\ pc = "fetch"
    /\ session_stats.errors < MaxErrors
    /\ \E outcome \in {"transient", "malformed"} :
          /\ callLog' = Append(callLog, outcome)
          /\ session_stats' = CountError(session_stats)
          /\ IF IsRetried(outcome) /\ HasBackoff(attempt) /\ attempt + 1 < MAX_RETRIES
               THEN /\ sleepsInCall' = Append(sleepsInCall, Pow2(attempt))
                    /\ attempt' = attempt + 1
                    /\ pc' = "fetch"
               ELSE /\ sleepsInCall' = IF IsRetried(outcome) /\ HasBackoff(attempt)
                                         THEN Append(sleepsInCall, Pow2(attempt))
                                         ELSE sleepsInCall
                    /\ attempt' = attempt
                    /\ pc' = "got"
    /\ data' = NoneData
    /\ attemptsMade' = attemptsMade + 1
    /\ UNCHANGED <<walkNo, feed, url, page_num, all_reviews, metadata,
                   walked, calls, interSleeps, events, fetchedAtStart, avars>>

\* lines 145-149
Finish(acc) ==
    /\ metadata' = [metadata EXCEPT !.total_pages = page_num, !.total_reviews = Len(acc)]
    /\ session_stats' = [session_stats EXCEPT !.total_reviews = @ + Len(acc)]
    /\ pc' = "returned"

\* `if not data: break` (lines 123-125), then lines 145-149
PageFailed ==
    /\ pc = "got"
    /\ ~Truthy(data)
    /\ Finish(all_reviews)
    /\ UNCHANGED <<walkNo, feed, url, page_num, all_reviews, attempt, data, callLog,
                   sleepsInCall, walked, calls, interSleeps, events, fetchedAtStart,
                   attemptsMade, avars>>

\* lines 127-140: a page with a next cursor to follow
PageAdvance ==
    /\ pc = "got"
    /\ Truthy(data)
    /\ ShouldAdvance(GetNextPageUrl(data), url)
    /\ all_reviews' = Extend(all_reviews, ExtractReviews(data))
    /\ walked' = Append(walked, url)
    /\ url' = GetNextPageUrl(data)
    /\ page_num' = page_num + 1
    /\ pc' = "loop"
    /\ UNCHANGED <<session_stats, walkNo, feed, metadata, attempt, data, callLog,
                   sleepsInCall, calls, interSleeps, events, fetchedAtStart,
                   attemptsMade, avars>>

\* lines 127-143: a page without a cursor to follow, then lines 145-149
PageLast ==
    /\ pc = "got"
    /\ Truthy(data)
    /\ ~ShouldAdvance(GetNextPageUrl(data), url)
    /\ all_reviews' = Extend(all_reviews, ExtractReviews(data))
    /\ walked' = Append(walked, url)
    /\ Finish(Extend(all_reviews, ExtractReviews(data)))
    /\ UNCHANGED <<walkNo, feed, url, page_num, attempt, data, callLog,
                   sleepsInCall, calls, interSleeps, events, fetchedAtStart,
                   attemptsMade, avars>>

Next ==
    \/ StartWalk
    \/ BeginFetch
    \/ AttemptOk
    \/ AttemptFail
    \/ PageFailed
    \/ PageAdvance
    \/ PageLast

Spec == Init /\ [][Next]_vars

----------------------------------------------------------------------------
(* ReviewAnalyzer: inputs *)

\* review ids of the drawn snapshots
MaxIds == 2
\* length of a drawn snapshot / of a drawn review list
MaxLen == 2
\* length of a drawn rating list
MaxRatings == 3
\* calendar months the drawn timestamps span
MaxMonths == 13

\* months kept in the returned series: sorted(...)[-12:]
KeepMonths == 12
\* months of the recent window: [-3:], and of the window before it: [-6:-3]
WindowMonths == 3

RECURSIVE SeqsUpTo(_, _)
SeqsUpTo(S, n) ==
    IF n = 0 THEN { <<>> }
    ELSE LET shorter == SeqsUpTo(S, n - 1)
         IN  shorter \cup { Append(q, x) : q \in { t \in shorter : Len(t) = n - 1 }, x \in S }

\* rating labels as the feed carries them; '' is extract_reviews' default
RatingLabels == {"1", "2", "3", "4", "5"}

\* int(review['rating']) succeeds
IsIntLabel(l) == l \in RatingLabels

\* int(review['rating'])
ToInt(l) == CASE l = "1" -> 1 [] l = "2" -> 2 [] l = "3" -> 3 [] l = "4" -> 4 [] l = "5" -> 5

\* str(k)
ToStr(k) == CASE k = 1 -> "1" [] k = 2 -> "2" [] k = 3 -> "3" [] k = 4 -> "4" [] k = 5 -> "5"

NoResult == [kind |-> "none"]
Raised(e) == [kind |-> "raised", error |-> e]

\* nearest integer to num / den, ties to even: round() on an exact quotient
RoundHalfEven(num, den) ==
    LET q == num \div den
        r == num % den
    IN  IF 2 * r < den THEN q
        ELSE IF 2 * r > den THEN q + 1
        ELSE IF q % 2 = 0 THEN q ELSE q + 1

RECURSIVE SumSeq(_)
SumSeq(q) == IF q = <<>> THEN 0 ELSE Head(q) + SumSeq(Tail(q))

----------------------------------------------------------------------------
(* get_all_reviews *)

\* mutant: the snapshots are read in the other order
Sources_Swapped == <<"most_recent", "most_helpful">>

\* for source in ['most_helpful', 'most_recent']
Sources == <<"most_helpful", "most_recent">>

\* mutant: the membership test is missing
NotSeen_Always(id, seen) == TRUE

\* if review['id'] not in seen_ids
NotSeen(id, seen) == id \notin seen

\* a review of a loaded snapshot: no source tag yet
MergeReviews == [id : 1..MaxIds, rating : {"2", "5"}, source : {"none"}]

\* a snapshot file that was found and loaded, or None
Snapshots == { [loaded |-> TRUE, reviews |-> q] : q \in SeqsUpTo(MergeReviews, MaxLen) }
                \cup { [loaded |-> FALSE, reviews |-> <<>>] }

\* the inner loop over one snapshot (lines 53-57); st = [out, seen, tagged]:
\* the list built so far, seen_ids, and the snapshot's reviews as the loop
\* leaves them (review['source'] = source writes into the snapshot's object)
RECURSIVE MergeSource(_, _, _)
MergeSource(st, rs, source) ==
    IF rs = <<>> THEN st
    ELSE LET review == Head(rs)
         IN  IF NotSeen(review.id, st.seen)
               THEN LET tagged == [review EXCEPT !.source = source]
                    IN  MergeSource([out    |-> Append(st.out, tagged),
                                     seen   |-> st.seen \cup {review.id},
                                     tagged |-> Append(st.tagged, tagged)],
                                    Tail(rs), source)
               ELSE MergeSource([st EXCEPT !.tagged = Append(@, review)], Tail(rs), source)

\* one pass of the outer loop (lines 51-57)
MergeStep(st, rd, source) ==
    IF rd[source].loaded
      THEN MergeSource([st EXCEPT !.tagged = <<>>], rd[source].reviews, source)
      ELSE [st EXCEPT !.tagged = <<>>]

MergeInit ==
    /\ FetcherInit
    /\ reviews_data \in { rd \in [most_helpful : Snapshots, most_recent : Snapshots] :
                            rd.most_helpful.loaded \/ rd.most_recent.loaded }
    /\ reviews = <<>>
    /\ apc = "input"
    /\ result = NoResult

\* get_all_reviews (lines 46-59)
GetAllReviews ==
    /\ apc = "input"
    /\ LET st0 == [out |-> <<>>, seen |-> {}, tagged |-> <<>>]
           st1 == MergeStep(st0, reviews_data, Sources[1])
           st2 == MergeStep(st1, reviews_data, Sources[2])
       IN  /\ result' = [kind |-> "list", reviews |-> st2.out]
           /\ reviews_data' = [reviews_data EXCEPT ![Sources[1]].reviews = st1.tagged,
                                                   ![Sources[2]].reviews = st2.tagged]
    /\ apc' = "done"
    /\ UNCHANGED <<reviews, fvars>>

MergeNext == GetAllReviews

SpecMerge == MergeInit /\ [][MergeNext]_vars

----------------------------------------------------------------------------
(* analyze_ratings_distribution *)

\* mutant: 4-star reviews are not counted as high
IsHigh_Strict(r) == r > 4

\* if r >= 4
IsHigh(r) == r >= 4

\* if r <= 3
IsLow(r) == r <= 3

\* Counter(ratings)[k]
CountOf(q, k) == Cardinality({ i \in DOMAIN q : q[i] = k })

\* sum(1 for r in ratings if r <= 3)
CountLow(q) == Cardinality({ i \in DOMAIN q : IsLow(q[i]) })

\* sum(1 for r in ratings if r >= 4)
CountHigh(q) == Cardinality({ i \in DOMAIN q : IsHigh(q[i]) })

RECURSIVE InsertSorted(_, _)
InsertSorted(q, x) ==
    IF q = <<>> THEN <<x>>
    ELSE IF x < Head(q) THEN <<x>> \o q
    ELSE <<Head(q)>> \o InsertSorted(Tail(q), x)

RECURSIVE SortInts(_)
SortInts(q) == IF q = <<>> THEN <<>> ELSE InsertSorted(SortInts(Tail(q)), Head(q))

\* statistics.median, doubled: the middle value, or the sum of the two middle values
Median2(q) ==
    LET srt == SortInts(q)
        n == Len(q)
    IN  IF n % 2 = 1 THEN 2 * srt[(n + 1) \div 2] ELSE srt[n \div 2] + srt[n \div 2 + 1]

RatingReviews == [rating : RatingLabels \cup {""}]

RatingsInit ==
    /\ FetcherInit
    /\ reviews_data = [most_helpful |-> <<>>, most_recent |-> <<>>]
    /\ reviews \in SeqsUpTo(RatingReviews, MaxRatings)
    /\ apc = "input"
    /\ result = NoResult

\* lines 64-76 for a non-empty list of ratings; average_rating is held in
\* hundredths and median_rating doubled
RatingStats(ratings) ==
    LET observed == { ratings[i] : i \in DOMAIN ratings }
        rating_counts == [k \in observed |-> CountOf(ratings, k)]
        keys == { ToStr(k) : k \in observed }
    IN  [kind |-> "ratings",
         distribution |-> [s \in keys |-> rating_counts[ToInt(s)]],
         total_reviews |-> Len(ratings),
         average_rating |-> RoundHalfEven(100 * SumSeq(ratings), Len(ratings)),
         median_rating |-> Median2(ratings),
         low_ratings_count |-> CountLow(ratings),
         high_ratings_count |-> CountHigh(ratings)]

\* mutant: an empty list yields zeroed statistics
RatingsOutcome_Default(ratings) ==
    IF ratings = <<>>
      THEN [kind |-> "ratings", distribution |-> <<>>, total_reviews |-> 0,
            average_rating |-> 0, median_rating |-> 0,
            low_ratings_count |-> 0, high_ratings_count |-> 0]
      ELSE RatingStats(ratings)

\* lines 64-76: statistics.mean([]) raises StatisticsError (line 72)
RatingsOutcome(ratings) ==
    IF ratings = <<>> THEN Raised("StatisticsError") ELSE RatingStats(ratings)

\* analyze_ratings_distribution (lines 61-76)
AnalyzeRatings ==
    /\ apc = "input"
    /\ IF \E i \in DOMAIN reviews : ~IsIntLabel(reviews[i].rating)
         THEN apc' = "raised" /\ result' = Raised("ValueError")
         ELSE LET outcome == RatingsOutcome([i \in DOMAIN reviews |-> ToInt(reviews[i].rating)])
              IN  /\ result' = outcome
                  /\ apc' = IF outcome.kind = "raised" THEN "raised" ELSE "done"
    /\ UNCHANGED <<reviews_data, reviews, fvars>>

RatingsNext == AnalyzeRatings

SpecRatings == RatingsInit /\ [][RatingsNext]_vars

----------------------------------------------------------------------------
(* analyze_temporal_trends *)

(* A timestamp is the calendar month it falls in, counted from January of    *)
(* the first year drawn, and how it parses: "aware" (an offset or Z, an      *)
(* offset-aware datetime), "naive" (no offset) or "bad" (fromisoformat       *)
(* raises).                                                                  *)

\* date.strftime('%Y-%m'): the key <<year, month>>, a fixed-width string
MonthKey(m) == << 2023 + (m - 1) \div 12, ((m - 1) % 12) + 1 >>

\* string comparison of two 'YYYY-MM' keys
KeyLess(a, b) == a[1] < b[1] \/ (a[1] = b[1] /\ a[2] < b[2])

\* sorted(keys)
RECURSIVE SortKeys(_)
SortKeys(K) ==
    IF K = {} THEN <<>>
    ELSE LET least == CHOOSE k \in K : \A o \in K \ {k} : KeyLess(k, o)
         IN  <<least>> \o SortKeys(K \ {least})

\* mutant: the slice keeps the head of the list
LastN_Head(q, n) == SubSeq(q, 1, IF Len(q) < n THEN Len(q) ELSE n)

\* q[-n:]
LastN(q, n) == SubSeq(q, (IF Len(q) > n THEN Len(q) - n ELSE 0) + 1, Len(q))

\* q[-a:-b]
SliceFromEnd(q, a, b) ==
    SubSeq(q, (IF Len(q) > a THEN Len(q) - a ELSE 0) + 1,
              IF Len(q) > b THEN Len(q) - b ELSE 0)

\* mutant: an absent previous window counts as zero
PreviousDefault_Zero(recent) == <<0, 1>>

\* `... if previous_months else recent_avg`
PreviousDefault(recent) == recent

\* the body of the try (lines 84-85) succeeds
Parses(r) == r.updated.kind # "bad" /\ IsIntLabel(r.rating)

\* lines 81-87: (date, rating) of the reviews that parse
DatedReviews(rs) ==
    LET kept == SelectSeq(rs, Parses)
    IN  [i \in DOMAIN kept |-> [month |-> kept[i].updated.month,
                                kind |-> kept[i].updated.kind,
                                rating |-> ToInt(kept[i].rating)]]

\* dated_reviews.sort compares an offset-naive with an offset-aware datetime
SortRaises(dated) == \E i, j \in DOMAIN dated : dated[i].kind # dated[j].kind

\* lines 92-104: monthly_trends, month key -> count and avg_rating (hundredths)
MonthlyTrends(dated) ==
    LET keys == { MonthKey(dated[i].month) : i \in DOMAIN dated }
        ratingsOf(k) == SelectSeq(dated, LAMBDA d : MonthKey(d.month) = k)
    IN  [k \in keys |->
            [count |-> Len(ratingsOf(k)),
             avg_rating |-> RoundHalfEven(
                 100 * SumSeq([i \in DOMAIN ratingsOf(k) |-> ratingsOf(k)[i].rating]),
                 Len(ratingsOf(k)))]]

\* statistics.mean over the avg_rating of the months ms, as <<sum, count>>
MeanOf(mt, ms) == << SumSeq([i \in DOMAIN ms |-> mt[ms[i]].avg_rating]), Len(ms) >>

\* comparison of two means held as <<sum, count>>
MeanLess(a, b) == a[1] * b[2] < b[1] * a[2]

\* line 115
Classify(recent_avg, previous_avg) ==
    IF MeanLess(previous_avg, recent_avg) THEN "improving"
    ELSE IF MeanLess(recent_avg, previous_avg) THEN "declining"
    ELSE "stable"

\* the rating a drawn month carries under rating pattern pat
PatternLabel(pat, m) ==
    CASE pat = 1 -> "3"
      [] pat = 2 -> ToStr((m % 5) + 1)
      [] OTHER   -> ToStr(5 - (m % 5))

\* one review per month of ms (a sequence of months)
SpanList(ms, pat) ==
    [i \in DOMAIN ms |-> [updated |-> [kind |-> "aware", month |-> ms[i]],
                          rating |-> PatternLabel(pat, ms[i])]]

RECURSIVE Ascending(_)
Ascending(S) ==
    IF S = {} THEN <<>>
    ELSE LET least == CHOOSE x \in S : \A y \in S : x <= y
         IN  <<least>> \o Ascending(S \ {least})

Reverse(q) == [i \in DOMAIN q |-> q[Len(q) + 1 - i]]

TrendReviews == [updated : [kind : {"aware", "naive", "bad"}, month : 1..2],
                 rating : {"2", "5", ""}]

\* the sets of months drawn: every set within the two windows and one month
\* more, and every set that lacks at most two of the months
MonthSets ==
    SUBSET (1..(2 * WindowMonths + 1))
      \cup { (1..MaxMonths) \ D : D \in { E \in SUBSET (1..MaxMonths) : Cardinality(E) <= 2 } }

\* every short list, and for every drawn set of months one review per month,
\* oldest first or newest first
TrendInputs ==
    SeqsUpTo(TrendReviews, MaxLen)
      \cup { SpanList(Ascending(S), pat) : S \in MonthSets, pat \in 1..3 }
      \cup { SpanList(Reverse(Ascending(S)), pat) : S \in MonthSets, pat \in 1..3 }

TrendsInit ==
    /\ FetcherInit
    /\ reviews_data = [most_helpful |-> <<>>, most_recent |-> <<>>]
    /\ reviews \in TrendInputs
    /\ apc = "input"
    /\ result = NoResult

\* analyze_temporal_trends (lines 78-117); monthly_trends is the returned
\* dict in its insertion order; recent_avg and previous_avg are the locals
AnalyzeTrends ==
    /\ apc = "input"
    /\ LET dated == DatedReviews(reviews)
       IN  IF SortRaises(dated)
             THEN apc' = "raised" /\ result' = Raised("TypeError")
           ELSE IF dated = <<>>
             THEN apc' = "raised" /\ result' = Raised("StatisticsError")
           ELSE LET monthly_trends == MonthlyTrends(dated)
                    sorted_keys == SortKeys(DOMAIN monthly_trends)
                    recent_months == LastN(sorted_keys, WindowMonths)
                    previous_months == SliceFromEnd(sorted_keys, 2 * WindowMonths, WindowMonths)
                    recent_avg == MeanOf(monthly_trends, recent_months)
                    previous_avg == IF previous_months # <<>>
                                      THEN MeanOf(monthly_trends, previous_months)
                                      ELSE PreviousDefault(recent_avg)
                    kept == LastN(sorted_keys, KeepMonths)
                IN  /\ apc' = "done"
                    /\ result' = [kind |-> "trends",
                                  monthly_trends |->
                                      [i \in DOMAIN kept |->
                                          [month |-> kept[i],
                                           count |-> monthly_trends[kept[i]].count,
                                           avg_rating |-> monthly_trends[kept[i]].avg_rating]],
                                  recent_trend |-> Classify(recent_avg, previous_avg),
                                  recent_avg_rating |-> RoundHalfEven(recent_avg[1], recent_avg[2]),
                                  recent_avg |-> recent_avg,
                                  previous_avg |-> previous_avg]
    /\ UNCHANGED <<reviews_data, reviews, fvars>>

TrendsNext == AnalyzeTrends

SpecTrends == TrendsInit /\ [][TrendsNext]_vars

----------------------------------------------------------------------------
(* extract_keywords_and_issues *)

(* A text is the sequence of its characters.                                 *)

\* length of a drawn review list
MaxIssueLen == 4

\* examples kept per category: `< 3` (line 145)
MAX_EXAMPLES == 3
\* characters of an example excerpt: [:200] (line 148)
EXCERPT_LEN == 200
\* characters of a feature-request excerpt: [:300] (line 169)
REQUEST_EXCERPT_LEN == 300
\* feature-request samples returned: [:5] (line 177)
MAX_SAMPLES == 5

UpperCase == <<"A", "B", "C", "D", "E", "F", "G", "H", "I", "J", "K", "L", "M",
               "N", "O", "P", "Q", "R", "S", "T", "U", "V", "W", "X", "Y", "Z">>
LowerCase == <<"a", "b", "c", "d", "e", "f", "g", "h", "i", "j", "k", "l", "m",
               "n", "o", "p", "q", "r", "s", "t", "u", "v", "w", "x", "y", "z">>

\* str.lower() on one character
LowerChar(c) ==
    IF \E i \in DOMAIN UpperCase : UpperCase[i] = c
      THEN LowerCase[CHOOSE i \in DOMAIN UpperCase : UpperCase[i] = c]
      ELSE c

\* str.lower()
Lower(t) == [i \in DOMAIN t |-> LowerChar(t[i])]

\* `keyword in content`
Contains(t, kw) == \E i \in 0..(Len(t) - Len(kw)) : SubSeq(t, i + 1, i + Len(kw)) = kw

\* any(keyword in content for keyword in keywords)
AnyIn(t, kws) == \E k \in DOMAIN kws : Contains(t, kws[k])

\* (review['title'] + ' ' + review['content']).lower()
ContentOf(title, content) == Lower(title \o <<" ">> \o content)

\* issue_categories (lines 125-134)
CategoryNames == <<"crashes_bugs", "performance", "ui_ux", "features", "sync_data", "pricing", "search_discovery", "social">>

issue_categories ==
    [c \in { CategoryNames[i] : i \in DOMAIN CategoryNames } |->
        CASE c = "crashes_bugs" ->
               << <<"c", "r", "a", "s", "h">>,
                  <<"b", "u", "g">>,
                  <<"f", "r", "e", "e", "z", "e">>,
                  <<"f", "r", "o", "z", "e", "n">>,
                  <<"s", "t", "u", "c", "k">>,
                  <<"e", "r", "r", "o", "r">>,
                  <<"b", "r", "o", "k", "e", "n">>,
                  <<"f", "i", "x">>,
                  <<"g", "l", "i", "t", "c", "h">> >>
          [] c = "performance" ->
               << <<"s", "l", "o", "w">>,
                  <<"l", "a", "g">>,
                  <<"l", "o", "a", "d", "i", "n", "g">>,
                  <<"p", "e", "r", "f", "o", "r", "m", "a", "n", "c", "e">>,
                  <<"s", "p", "e", "e", "d">>,
                  <<"r", "e", "s", "p", "o", "n", "s", "i", "v", "e">> >>
          [] c = "ui_ux" ->
               << <<"i", "n", "t", "e", "r", "f", "a", "c", "e">>,
                  <<"d", "e", "s", "i", "g", "n">>,
                  <<"c", "o", "n", "f", "u", "s", "i", "n", "g">>,
                  <<"i", "n", "t", "u", "i", "t", "i", "v", "e">>,
                  <<"n", "a", "v", "i", "g", "a", "t", "i", "o", "n">>,
                  <<"l", "a", "y", "o", "u", "t">>,
                  <<"u", "i">>,
                  <<"u", "x">>,
                  <<"u", "s", "e", "r", " ", "e", "x", "p", "e", "r", "i", "e", "n", "c", "e">> >>
          [] c = "features" ->
               << <<"f", "e", "a", "t", "u", "r", "e">>,
                  <<"m", "i", "s", "s", "i", "n", "g">>,
                  <<"n", "e", "e", "d">>,
                  <<"w", "a", "n", "t">>,
                  <<"w", "i", "s", "h">>,
                  <<"a", "d", "d">>,
                  <<"i", "m", "p", "l", "e", "m", "e", "n", "t">>,
                  <<"f", "u", "n", "c", "t", "i", "o", "n", "a", "l", "i", "t", "y">> >>
          [] c = "sync_data" ->
               << <<"s", "y", "n", "c">>,
                  <<"d", "a", "t", "a">>,
                  <<"l", "o", "s", "t">>,
                  <<"b", "a", "c", "k", "u", "p">>,
                  <<"r", "e", "s", "t", "o", "r", "e">>,
                  <<"c", "l", "o", "u", "d">>,
                  <<"s", "a", "v", "e">> >>
          [] c = "pricing" ->
               << <<"e", "x", "p", "e", "n", "s", "i", "v", "e">>,
                  <<"p", "r", "i", "c", "e">>,
                  <<"c", "o", "s", "t">>,
                  <<"s", "u", "b", "s", "c", "r", "i", "p", "t", "i", "o", "n">>,
                  <<"f", "r", "e", "e">>,
                  <<"p", "a", "y">>,
                  <<"p", "r", "e", "m", "i", "u", "m">> >>
          [] c = "search_discovery" ->
               << <<"s", "e", "a", "r", "c", "h">>,
                  <<"f", "i", "n", "d">>,
                  <<"d", "i", "s", "c", "o", "v", "e", "r">>,
                  <<"f", "i", "l", "t", "e", "r">>,
                  <<"s", "o", "r", "t">> >>
          [] c = "social" ->
               << <<"f", "r", "i", "e", "n", "d", "s">>,
                  <<"s", "o", "c", "i", "a", "l">>,
                  <<"s", "h", "a", "r", "e">>,
                  <<"c", "o", "m", "m", "u", "n", "i", "t", "y">>,
                  <<"f", "o", "l", "l", "o", "w">>,
                  <<"p", "r", "o", "f", "i", "l", "e">> >>]

\* feature_patterns (lines 152-160), each alternation written out
feature_patterns ==
    << <<"w", "o", "u", "l", "d", " ", "b", "e", " ", "n", "i", "c", "e", " ", "i", "f">>,
       <<"w", "o", "u", "l", "d", " ", "b", "e", " ", "g", "r", "e", "a", "t", " ", "i", "f">>,
       <<"w", "o", "u", "l", "d", " ", "b", "e", " ", "g", "o", "o", "d", " ", "i", "f">>,
       <<"w", "i", "s", "h", " ", "i", "t">>,
       <<"w", "i", "s", "h", " ", "t", "h", "i", "s">>,
       <<"w", "i", "s", "h", " ", "t", "h", "e", " ", "a", "p", "p">>,
       <<"s", "h", "o", "u", "l", "d", " ", "a", "d", "d">>,
       <<"s", "h", "o", "u", "l", "d", " ", "h", "a", "v", "e">>,
       <<"s", "h", "o", "u", "l", "d", " ", "i", "n", "c", "l", "u", "d", "e">>,
       <<"n", "e", "e", "d", " ", "t", "o">>,
       <<"n", "e", "e", "d", "s", " ", "t", "o">>,
       <<"n", "e", "e", "d", " ", "a">>,
       <<"n", "e", "e", "d", "s", " ", "a">>,
       <<"n", "e", "e", "d", " ", "a", "n">>,
       <<"n", "e", "e", "d", "s", " ", "a", "n">>,
       <<"m", "i", "s", "s", "i", "n", "g">>,
       <<"p", "l", "e", "a", "s", "e", " ", "a", "d", "d">>,
       <<"f", "e", "a", "t", "u", "r", "e", " ", "r", "e", "q", "u", "e", "s", "t">> >>

\* text[:n] + '...' if len(text) > n else text
Excerpt(t, n) == IF Len(t) > n THEN SubSeq(t, 1, n) \o <<".", ".", ".">> ELSE t

\* titles and contents of the drawn reviews
IssueTexts ==
    { [title |-> <<"C", "r", "a", "s", "h">>, content |-> <<"A", "p", "p", " ", "i", "s", " ", "S", "L", "O", "W">>],
      [title |-> <<"b", "a", "d", " ", "u", "s", "e", "r">>, content |-> <<"e", "x", "p", "e", "r", "i", "e", "n", "c", "e", " ", "m", "i", "s", "s", "i", "n", "g">>],
      [title |-> <<>>, content |-> <<"o", "k">>] }

\* the categories whose triggers occur in a drawn text
CategoryHits ==
    [t \in IssueTexts |->
        { c \in DOMAIN issue_categories : AnyIn(ContentOf(t.title, t.content), issue_categories[c]) }]

\* whether a feature pattern occurs in a drawn text (re.search)
RequestHits ==
    [t \in IssueTexts |-> AnyIn(ContentOf(t.title, t.content), feature_patterns)]

TextOf(review) == [title |-> review.title, content |-> review.content]

\* `if any(keyword in content for keyword in keywords)` for category c
MatchesCategory(review, c) == c \in CategoryHits[TextOf(review)]

\* `if re.search(pattern, content)` for some pattern
MatchesRequest(review) == RequestHits[TextOf(review)]

\* int(r['rating']) <= 3 (line 122)
IsLowRated(review) == ToInt(review.rating) <= 3

\* mutant: the count stops with the examples
AddIssue_Capped(entry, review) ==
    IF Len(entry.examples) < MAX_EXAMPLES
      THEN [count |-> entry.count + 1,
            examples |-> Append(entry.examples,
                                [rating |-> review.rating,
                                 excerpt |-> Excerpt(review.content, EXCERPT_LEN)])]
      ELSE entry

\* lines 144-149: count the review, keep it as an example while fewer than 3
AddIssue(entry, review) ==
    [count |-> entry.count + 1,
     examples |-> IF Len(entry.examples) < MAX_EXAMPLES
                    THEN Append(entry.examples,
                                [rating |-> review.rating,
                                 excerpt |-> Excerpt(review.content, EXCERPT_LEN)])
                    ELSE entry.examples]

\* lines 139-149: the loop over low_rated_reviews; cc holds every category,
\* a category the defaultdict has not created yet with count 0
RECURSIVE IssueLoop(_, _)
IssueLoop(cc, rs) ==
    IF rs = <<>> THEN cc
    ELSE IssueLoop([c \in DOMAIN cc |->
                       IF MatchesCategory(Head(rs), c) THEN AddIssue(cc[c], Head(rs)) ELSE cc[c]],
                   Tail(rs))

\* lines 162-171: one sample per review that matches a pattern
FeatureRequests(rs) ==
    LET hits == SelectSeq(rs, MatchesRequest)
    IN  [i \in DOMAIN hits |-> [rating |-> hits[i].rating,
                                excerpt |-> Excerpt(hits[i].content, REQUEST_EXCERPT_LEN)]]

\* q[:n]
FirstN(q, n) == SubSeq(q, 1, IF Len(q) < n THEN Len(q) ELSE n)

\* sum(cat['count'] for cat in category_counts.values())
RECURSIVE SumOfCounts(_, _)
SumOfCounts(cc, S) ==
    IF S = {} THEN 0
    ELSE LET c == CHOOSE x \in S : TRUE IN cc[c].count + SumOfCounts(cc, S \ {c})

IssueReviews == { [rating |-> r, title |-> t.title, content |-> t.content] :
                    r \in {"1", "3", "4"}, t \in IssueTexts }

IssuesInit ==
    /\ FetcherInit
    /\ reviews_data = [most_helpful |-> <<>>, most_recent |-> <<>>]
    /\ reviews \in SeqsUpTo(IssueReviews, MaxIssueLen)
    /\ apc = "input"
    /\ result = NoResult

\* extract_keywords_and_issues (lines 119-178); issue_categories holds the
\* categories the defaultdict created
ExtractIssues ==
    /\ apc = "input"
    /\ IF \E i \in DOMAIN reviews : ~IsIntLabel(reviews[i].rating)
         THEN apc' = "raised" /\ result' = Raised("ValueError")
         ELSE LET low_rated_reviews == SelectSeq(reviews, IsLowRated)
                  empty == [c \in DOMAIN issue_categories |-> [count |-> 0, examples |-> <<>>]]
                  category_counts == IssueLoop(empty, low_rated_reviews)
                  created == { c \in DOMAIN category_counts : category_counts[c].count > 0 }
                  feature_requests == FeatureRequests(reviews)
              IN  /\ apc' = "done"
                  /\ result' = [kind |-> "issues",
                                issue_categories |-> [c \in created |-> category_counts[c]],
                                total_issues_found |-> SumOfCounts(category_counts, created),
                                feature_requests_count |-> Len(feature_requests),
                                feature_request_samples |-> FirstN(feature_requests, MAX_SAMPLES)]
    /\ UNCHANGED <<reviews_data, reviews, fvars>>

IssuesNext == ExtractIssues

SpecIssues == IssuesInit /\ [][IssuesNext]_vars

----------------------------------------------------------------------------
(* Properties of the fetch session *)

AllTransient(log) == \A i \in DOMAIN log : log[i] = "transient"

\* the fetch_url call has returned to fetch_all_reviews
CallReturned == pc \in {"got", "loop", "returned"} /\ callLog # <<>>

\* C1: a fetch_url call whose every attempt raised a transient failure made
\* exactly 3 attempts and returned None; no call makes a 4th attempt.
C1_RetryBudget ==
    /\ Len(callLog) <= 3
    /\ (CallReturned /\ AllTransient(callLog)) => (Len(callLog) = 3 /\ data = NoneData)

C1_Witness ==
    /\ pc = "got"
    /\ callLog = <<"transient", "transient", "transient">>
    /\ data = NoneData

\* C2 (as claimed): every loop iteration advances the cursor to a value the
\* walk has not fetched before, so no walk fetches the same cursor twice.
C2_CursorsDistinct ==
    \A i, j \in DOMAIN walked : i < j => walked[i] # walked[j]

\* the page served for the i-th walked cursor
WalkedData(i) == PageData(walked[i].page, feed[walked[i].page])

\* the i-th walked page's next cursor is the cursor it was fetched with
SelfLinked(i) == GetNextPageUrl(WalkedData(i)) = walked[i]

\* C3 (as claimed): a walk that fetched a page whose next cursor equals the
\* cursor just fetched returns after exactly one more fetch_url call.
C3_OneExtraFetch ==
    \A i \in DOMAIN walked : (SelfLinked(i) /\ pc = "returned") => calls = i + 1

\* C3 (amended): the fetch that returned a page whose next cursor equals the
\* cursor just fetched is the last fetch of the walk: the walk returns
\* without any further fetch_url call.
C3_NoExtraFetch ==
    \A i \in DOMAIN walked :
        SelfLinked(i) => (i = Len(walked) /\ calls = i /\ pc = "returned")

C3_Witness ==
    /\ pc = "returned"
    /\ Len(walked) = 2
    /\ SelfLinked(2)
    /\ calls = 2

\* C4: after an attempt that failed on a malformed payload the call has
\* returned None, the only backoff sleeps of the call are those of the
\* transient failures before it, and the walk returns without processing a
\* page or fetching again.
C4_MalformedNotRetried ==
    (callLog # <<>> /\ callLog[Len(callLog)] = "malformed") =>
        /\ pc \in {"got", "returned"}
        /\ data = NoneData
        /\ Len(sleepsInCall) = Len(callLog) - 1
        /\ Len(walked) = calls - 1

C4_Witness ==
    /\ pc = "returned"
    /\ callLog = <<"transient", "malformed">>
    /\ sleepsInCall = <<1>>

RECURSIVE ReviewsOfWalked(_)
ReviewsOfWalked(n) ==
    IF n = 0 THEN <<>>
    ELSE ReviewsOfWalked(n - 1) \o ExtractReviews(WalkedData(n))

\* C5: a walk whose k-th fetch failed returns the reviews of the k-1 pages
\* fetched before it, in page order, and total_reviews is their number.
C5_PartialResults ==
    (pc = "returned" /\ ~Truthy(data)) =>
        /\ Len(walked) = calls - 1
        /\ all_reviews = ReviewsOfWalked(Len(walked))
        /\ metadata.total_reviews = Len(all_reviews)

C5_Witness ==
    /\ pc = "returned"
    /\ data = NoneData
    /\ calls = 3
    /\ all_reviews = << [id |-> 11], [id |-> 12], [id |-> 21] >>

----------------------------------------------------------------------------
(* Properties of get_all_reviews *)

Merged == result.reviews
HelpfulIn == reviews_data.most_helpful.reviews
RecentIn == reviews_data.most_recent.reviews

IdsOf(q) == { q[i].id : i \in DOMAIN q }

Occurrences(q, id) == Cardinality({ i \in DOMAIN q : q[i].id = id })

\* index of the first review of q with this id
FirstIndex(q, id) == CHOOSE i \in DOMAIN q : q[i].id = id /\ \A j \in 1..(i - 1) : q[j].id # id

MergeDone == apc = "done" /\ result.kind = "list"

\* C6: the merged list holds every id of either snapshot exactly once and no
\* other id.
C6_EachIdOnce ==
    MergeDone =>
        /\ \A id \in IdsOf(HelpfulIn) \cup IdsOf(RecentIn) : Occurrences(Merged, id) = 1
        /\ IdsOf(Merged) \subseteq IdsOf(HelpfulIn) \cup IdsOf(RecentIn)

\* an id repeated within most_helpful and present in most_recent as well
C6_Witness ==
    /\ MergeDone
    /\ \E id \in IdsOf(RecentIn) : Occurrences(HelpfulIn, id) = 2
    /\ Len(Merged) = 2

\* C7: a merged review is the first occurrence of its id, most_helpful read
\* before most_recent: tagged most_helpful with that snapshot's fields when
\* most_helpful has the id, else tagged most_recent; a later occurrence of
\* the id is left as it was.
C7_FirstSeenWins ==
    MergeDone =>
        /\ \A i \in DOMAIN Merged :
              LET r == Merged[i]
              IN  IF r.id \in IdsOf(HelpfulIn)
                    THEN /\ r.source = "most_helpful"
                         /\ r.rating = HelpfulIn[FirstIndex(HelpfulIn, r.id)].rating
                    ELSE /\ r.source = "most_recent"
                         /\ r.rating = RecentIn[FirstIndex(RecentIn, r.id)].rating
        /\ \A j \in DOMAIN RecentIn :
              RecentIn[j].id \in IdsOf(HelpfulIn) => RecentIn[j].source = "none"
        /\ \A j \in DOMAIN HelpfulIn :
              j # FirstIndex(HelpfulIn, HelpfulIn[j].id) => HelpfulIn[j].source = "none"

\* one id in both snapshots with different ratings
C7_Witness ==
    /\ MergeDone
    /\ \E i \in DOMAIN Merged, j \in DOMAIN RecentIn :
          /\ Merged[i].id = RecentIn[j].id
          /\ Merged[i].source = "most_helpful"
          /\ Merged[i].rating # RecentIn[j].rating

----------------------------------------------------------------------------
(* Properties of analyze_ratings_distribution *)

RECURSIVE SumOver(_, _)
SumOver(f, S) ==
    IF S = {} THEN 0
    ELSE LET x == CHOOSE y \in S : TRUE IN f[x] + SumOver(f, S \ {x})

RatingsDone == apc = "done" /\ result.kind = "ratings"

\* C8: for a non-empty list of ratings 1..5 the distribution counts sum to
\* total_reviews, and low_ratings_count + high_ratings_count = total_reviews.
C8_RatingTotals ==
    RatingsDone =>
        /\ result.total_reviews = Len(reviews)
        /\ SumOver(result.distribution, DOMAIN result.distribution) = result.total_reviews
        /\ result.low_ratings_count + result.high_ratings_count = result.total_reviews

C8_Witness ==
    /\ RatingsDone
    /\ reviews = << [rating |-> "3"], [rating |-> "4"], [rating |-> "4"] >>
    /\ result.distribution = [k \in {"3", "4"} |-> IF k = "3" THEN 1 ELSE 2]
    /\ result.low_ratings_count = 1
    /\ result.high_ratings_count = 2

----------------------------------------------------------------------------
(* Properties of analyze_temporal_trends *)

\* the months of the reviews that parse
ParsedMonths == { reviews[i].updated.month : i \in { j \in DOMAIN reviews : Parses(reviews[j]) } }

\* the months with fewer than 12 later months in the input
MostRecentMonths == { m \in ParsedMonths : Cardinality({ x \in ParsedMonths : x > m }) < 12 }

TrendsDone == apc = "done" /\ result.kind = "trends"

\* C9: monthly_trends has at most 12 entries, in chronological order, and
\* they are the most recent months of the input.
C9_LastTwelveMonths ==
    TrendsDone =>
        /\ Len(result.monthly_trends) <= 12
        /\ Len(result.monthly_trends) = Cardinality(MostRecentMonths)
        /\ \A i \in DOMAIN result.monthly_trends :
              result.monthly_trends[i].month = MonthKey(Ascending(MostRecentMonths)[i])

\* thirteen months in the input, newest first: the oldest is dropped
C9_Witness ==
    /\ TrendsDone
    /\ Cardinality(ParsedMonths) = 13
    /\ reviews[1].updated.month = 13
    /\ Len(result.monthly_trends) = 12
    /\ result.monthly_trends[1].month = <<2023, 2>>
    /\ result.monthly_trends[12].month = <<2024, 1>>

\* C10 (as claimed): with fewer than 6 distinct months the previous-window
\* average equals the recent-window average and recent_trend is 'stable'.
C10_FewerThanSixStable ==
    (TrendsDone /\ Cardinality(ParsedMonths) < 6) =>
        /\ ~MeanLess(result.previous_avg, result.recent_avg)
        /\ ~MeanLess(result.recent_avg, result.previous_avg)
        /\ result.recent_trend = "stable"

\* C10 (amended): with at most 3 distinct months, so that no month precedes
\* the 3 most recent ones, the previous-window average is the recent-window
\* average and recent_trend is 'stable'; with 4 or 5 distinct months the
\* previous window is the 1 or 2 months before the 3 most recent ones.
C10_NoPriorMonthStable ==
    TrendsDone =>
        /\ Cardinality(ParsedMonths) <= 3 =>
              /\ result.previous_avg = result.recent_avg
              /\ result.recent_trend = "stable"
        /\ Cardinality(ParsedMonths) \in {4, 5} =>
              /\ result.recent_avg[2] = 3
              /\ result.previous_avg[2] = Cardinality(ParsedMonths) - 3

\* three months whose averages differ, classified stable
C10_Witness ==
    /\ TrendsDone
    /\ Cardinality(ParsedMonths) = 3
    /\ result.monthly_trends[1].avg_rating < result.monthly_trends[3].avg_rating
    /\ result.recent_trend = "stable"

\* some timestamp of the input is unparsable
SomeUnparsable == \E i \in DOMAIN reviews : reviews[i].updated.kind = "bad"

\* C11 (as claimed): a review list with unparsable timestamps, some or all,
\* never makes analyze_temporal_trends fail: the call returns a TrendStats
\* whose months are those of the reviews that parse.
C11_UnparsableNeverAborts ==
    (apc # "input" /\ SomeUnparsable /\ ~SortRaises(DatedReviews(reviews))) =>
        /\ TrendsDone
        /\ \A i \in DOMAIN result.monthly_trends :
              \E m \in ParsedMonths : result.monthly_trends[i].month = MonthKey(m)

----------------------------------------------------------------------------
(* Properties of analyze_ratings_distribution on an empty list *)

\* C12: analyze_ratings_distribution given zero reviews raises the
\* empty-input error (StatisticsError) to its caller and returns no RatingStats.
C12_EmptyInputRaises ==
    (apc # "input" /\ reviews = <<>>) =>
        /\ apc = "raised"
        /\ result = Raised("StatisticsError")

C12_Witness ==
    /\ reviews = <<>>
    /\ apc = "raised"
    /\ result.kind = "raised"
    /\ result.error = "StatisticsError"

----------------------------------------------------------------------------
(* Properties of the walk's metadata, delays and session counters *)

\* pages the current walk fetched successfully: its increase of pages_fetched
FetchedByWalk == session_stats.pages_fetched - fetchedAtStart

\* C13 (as claimed): the total_pages a walk returns is the number of pages
\* it fetched successfully, however the walk ended.
C13_TotalPagesIsFetched ==
    pc = "returned" => metadata.total_pages = FetchedByWalk

----------------------------------------------------------------------------
(* Properties of extract_keywords_and_issues *)

IssuesDone == apc = "done" /\ result.kind = "issues"

\* the entry of category c in the returned issue_categories; a category the
\* defaultdict never created has no entry
EntryOf(c) ==
    IF c \in DOMAIN result.issue_categories
      THEN result.issue_categories[c]
      ELSE [count |-> 0, examples |-> <<>>]

\* the reviews with rating <= 3 whose text contains a trigger of c, in input order
SuchReviews(c) ==
    SelectSeq(reviews, LAMBDA r : ToInt(r.rating) <= 3 /\ MatchesCategory(r, c))

\* C14: for every category, the count is the number of reviews with rating
\* <= 3 whose lower-cased title + ' ' + content contains one of its triggers
\* (so a review counts in every category it matches and no review with
\* rating >= 4 counts), and the examples are the first min(count, 3) of those
\* reviews in input order; the count goes on past the third example.
C14_CountsAndExamples ==
    IssuesDone =>
        \A c \in DOMAIN issue_categories :
            LET such == SuchReviews(c)
                kept == FirstN(such, MAX_EXAMPLES)
            IN  /\ EntryOf(c).count = Len(such)
                /\ EntryOf(c).examples =
                       [i \in DOMAIN kept |-> [rating |-> kept[i].rating,
                                               excerpt |-> kept[i].content]]
                /\ (c \in DOMAIN result.issue_categories) = (Len(such) > 0)

\* four low-rated reviews counted in two categories at once, three examples each
C14_Witness ==
    /\ IssuesDone
    /\ \E c, d \in DOMAIN result.issue_categories :
          /\ c # d
          /\ result.issue_categories[c].count > MAX_EXAMPLES
          /\ result.issue_categories[d].count > MAX_EXAMPLES
          /\ Len(result.issue_categories[c].examples) = MAX_EXAMPLES
          /\ result.issue_categories[c].examples[1].rating # result.issue_categories[c].examples[2].rating

----------------------------------------------------------------------------
(* Properties of the inter-page delay and of the session counters *)

\* how often e occurs in events
EventCount(e) == Cardinality({ i \in DOMAIN events : events[i] = e })

\* C15: in every walk no delay precedes the fetch of the first page, and one
\* delay immediately precedes the fetch of every later page: a walk that has
\* requested n pages has performed exactly n - 1 inter-page delays.
C15_DelayBeforeEachLaterPage ==
    /\ EventCount("call") = calls
    /\ EventCount("delay") = interSleeps
    /\ interSleeps = (IF calls = 0 THEN 0 ELSE calls - 1)
    /\ events # <<>> => events[1] = "call"
    /\ \A i \in DOMAIN events :
          /\ events[i] = "delay" => i < Len(events) /\ events[i + 1] = "call"
          /\ (events[i] = "call" /\ i > 1) => events[i - 1] = "delay"

\* a walk that requested three pages and slept twice, once before each later page
C15_Witness ==
    /\ calls = 3
    /\ interSleeps = 2
    /\ events = <<"call", "delay", "call", "delay", "call">>

\* the counters of the session
Fetched == session_stats.pages_fetched
Errors == session_stats.errors

\* one step of the session, seen from the two counters
CountersStep ==
    /\ Fetched' >= Fetched
    /\ Errors' >= Errors
    /\ IF attemptsMade' = attemptsMade + 1
         THEN /\ pc = "fetch"
              /\ callLog' # <<>>
              /\ IF callLog'[Len(callLog')] = "ok"
                   THEN Fetched' = Fetched + 1 /\ Errors' = Errors
                   ELSE /\ callLog'[Len(callLog')] \in {"transient", "malformed"}
                        /\ Fetched' = Fetched
                        /\ Errors' = Errors + 1
         ELSE /\ attemptsMade' = attemptsMade
              /\ Fetched' = Fetched
              /\ Errors' = Errors

\* C16: across both walks of a session pages_fetched and errors never go
\* down and change only in an attempt of fetch_url: a successful attempt adds
\* 1 to pages_fetched and leaves errors, a failed attempt (transient or
\* malformed) adds 1 to errors and leaves pages_fetched, so that
\* pages_fetched + errors is the number of attempts made.
C16_CountersFollowAttempts ==
    /\ [](Fetched + Errors = attemptsMade)
    /\ [][CountersStep]_vars

\* the second walk has run after successes and failures of both kinds of outcome
C16_Witness ==
    /\ walkNo = 2
    /\ pc = "returned"
    /\ Fetched >= 2
    /\ Errors >= 1
    /\ Fetched + Errors = attemptsMade

====
